---- MODULE Spec2Model ----
(***************************************************************************)
(* Model of src/app.py: a Flask service that ingests the messages of a     *)
(* remote feed into a vector index (bootstrap_vector_db at startup,        *)
(* update_vector_db in a background thread) and answers /ask requests      *)
(* (ask_question, which calls identify_user, a filtered similarity search  *)
(* and an answer-generation call).                                         *)
(*                                                                         *)
(* The remote feed, the language model and the vector store are external:  *)
(* each call to them is a nondeterministic choice over the results the     *)
(* code can receive, failures included.                                    *)
(***************************************************************************)
EXTENDS Integers, Sequences, FiniteSets, Bags, TLC

\* ------------------------------------------------------------------ bounds
\* Longest remote snapshot explored.
MaxRemote == 2
\* Number of process restarts explored (the index directory survives them).
MaxRestarts == 1

\* ------------------------------------------------------- program constants
\* similarity_search(question, k=4, ...)
K == 4

\* ------------------------------------------------------------ message feed
Msg(id, uid, name, ts, text) ==
    [id |-> id, user_id |-> uid, user_name |-> name, timestamp |-> ts, message |-> text]

\* The messages the remote feed may serve: two users with different ids whose
\* names differ only in case (1 and 3), two messages with one timestamp (1 and
\* 4), a body long enough to split in two chunks (1).
Messages ==
    { Msg(1, "u1", "Alice", "t1", "long"),
      Msg(2, "u2", "Bob",   "t2", "short"),
      Msg(3, "u3", "alice", "t3", "short"),
      Msg(4, "u1", "Alice", "t1", "short") }

\* str.lower() on the names that occur.
lower(s) ==
    CASE s = "Alice" -> "alice"
      [] s = "Bob"   -> "bob"
      [] s = "Carol" -> "carol"
      [] OTHER       -> s

\* splitter.split_text(text): the chunks of a message body. An empty body has
\* no chunk, a body within chunk_size is its own single chunk, a longer one is
\* cut in several.
split_text(text) ==
    CASE text = ""      -> << >>
      [] text = "short" -> << "short" >>
      [] text = "long"  -> << "long[0]", "long[1]" >>
      [] OTHER          -> << text >>

\* The metadata dict written with a chunk, plus the chunk text: one index entry.
Entry(m, chunk) ==
    [user_id |-> m.user_id, user_name |-> m.user_name,
     timestamp |-> m.timestamp, id |-> m.id, text |-> chunk]

\* The entries of all chunks of message m, in order.
Entries(m) ==
    [c \in 1..Len(split_text(m.message)) |-> Entry(m, split_text(m.message)[c])]

RECURSIVE SeqToBag(_)
SeqToBag(s) ==
    IF s = << >> THEN EmptyBag ELSE SetToBag({Head(s)}) (+) SeqToBag(Tail(s))

\* A mistaken variant of DictSet: the dict is rebuilt with the one new key.
DictReplace(d, k, v) == [x \in {k} |-> v]

\* user_map[k] = v on a dict.
DictSet(d, k, v) ==
    [x \in (DOMAIN d) \cup {k} |-> IF x = k THEN v ELSE d[x]]

EmptyDict == << >>

\* ------------------------------------------------------------------- state
VARIABLES
    remote,             \* what GET API_URL serves now: a sequence of messages
    user_map,           \* module global: lowercased user name -> user id
    known_timestamps,   \* module global: set of timestamps
    vector_db,          \* the Chroma collection: a bag of entries (persisted)
    boot,               \* main thread: __main__ and bootstrap_vector_db's locals
    upd,                \* background thread: update_vector_db's locals
    ask,                \* a request thread: ask_question's locals and response
    hist,               \* history of the sync passes (not program state)
    restarts            \* process restarts so far

vars == << remote, user_map, known_timestamps, vector_db, boot, upd, ask, hist, restarts >>

\* HTTP outcomes of requests.get + raise_for_status + resp.json():
\*   "ok"      a JSON object {total, items}
\*   "error"   network error, non-2xx status or a body that is not JSON
\*   "nondict" a 2xx JSON body that is not an object (a list, null, ...)
Responses == {"ok", "error", "nondict"}

NoData   == [kind |-> "none", items |-> << >>]
BootInit == [pc |-> "fetch", data |-> NoData,
             items |-> << >>, i |-> 1, docs |-> << >>]
UpdInit  == [pc |-> "off", data |-> NoData,
             new_msgs |-> << >>, i |-> 1, j |-> 1]
NoValue  == [t |-> "none", v |-> ""]
AskInit  == [pc |-> "idle", question |-> "none", user_name |-> NoValue, user_id |-> "none",
             docs |-> EmptyBag, status |-> "none", body |-> "none",
             searched |-> FALSE, generated |-> FALSE]
HistInit == [snap |-> << >>, ok |-> FALSE, same |-> FALSE, prevOk |-> FALSE]

Init ==
    /\ remote = << >>
    /\ user_map = EmptyDict
    /\ known_timestamps = {}
    /\ vector_db = EmptyBag
    /\ boot = BootInit
    /\ upd = UpdInit
    /\ ask = AskInit
    /\ hist = HistInit
    /\ restarts = 0

\* ------------------------------------------------------------- environment
\* The remote feed gains a message.
RemoteAppend ==
    /\ Len(remote) < MaxRemote
    /\ \E m \in Messages :
         /\ \A k \in 1..Len(remote) : remote[k] # m
         /\ remote' = Append(remote, m)
    /\ UNCHANGED << user_map, known_timestamps, vector_db, boot, upd, ask, hist, restarts >>

\* The process is stopped and started again: module globals are rebuilt empty
\* (lines 62-63), the Chroma collection is reopened from VECTOR_DB_DIR.
Restart ==
    /\ restarts < MaxRestarts
    /\ restarts' = restarts + 1
    /\ user_map' = EmptyDict
    /\ known_timestamps' = {}
    /\ boot' = BootInit
    /\ upd' = UpdInit
    /\ ask' = AskInit
    /\ hist' = HistInit
    /\ UNCHANGED << remote, vector_db >>

\* ------------------------------------------------------------ fetch_messages
fetch_messages(resp) ==
    CASE resp = "ok"      -> [kind |-> "dict", items |-> remote]
      [] resp = "nondict" -> [kind |-> "list", items |-> << >>]
      [] OTHER            -> [kind |-> "dict", items |-> << >>]

\* data.get("items", []): a dict's items; a non-dict has no .get (AttributeError).
HasGet(data) == data.kind = "dict"

\* ------------------------------------------------------- bootstrap_vector_db
\* line 87: data = fetch_messages()
BootFetch ==
    /\ boot.pc = "fetch"
    /\ \E resp \in Responses :
         /\ boot' = [boot EXCEPT !.pc = "items", !.data = fetch_messages(resp)]
         /\ hist' = [hist EXCEPT !.snap = remote, !.ok = (resp = "ok")]
    /\ UNCHANGED << remote, user_map, known_timestamps, vector_db, upd, ask, restarts >>

\* line 88: items = data.get("items", []). Nothing catches the AttributeError
\* of a non-dict body: it leaves bootstrap_vector_db and __main__ (line 239).
BootItems ==
    /\ boot.pc = "items"
    /\ boot' = IF HasGet(boot.data)
               THEN [boot EXCEPT !.pc = "loop", !.items = boot.data.items, !.i = 1,
                                !.data = NoData]
               ELSE [boot EXCEPT !.pc = "crashed"]
    /\ UNCHANGED << remote, user_map, known_timestamps, vector_db, upd, ask, hist, restarts >>

\* lines 91-102: one iteration of `for m in items`.
BootLoop ==
    /\ boot.pc = "loop"
    /\ boot.i <= Len(boot.items)
    /\ LET m == boot.items[boot.i] IN
         /\ user_map' = DictSet(user_map, lower(m.user_name), m.user_id)
         /\ known_timestamps' = known_timestamps \cup {m.timestamp}
         /\ boot' = [boot EXCEPT !.i = boot.i + 1, !.docs = boot.docs \o Entries(m)]
    /\ UNCHANGED << remote, vector_db, upd, ask, hist, restarts >>

\* lines 104-106: one add_texts call for the whole batch. Its exception is not
\* caught either.
BootWrite ==
    /\ boot.pc = "loop"
    /\ boot.i > Len(boot.items)
    /\ IF boot.docs = << >>
       THEN /\ boot' = [boot EXCEPT !.pc = "thread"]
            /\ UNCHANGED << vector_db, hist >>
       ELSE \E written \in BOOLEAN :
              IF written
              THEN /\ vector_db' = vector_db (+) SeqToBag(boot.docs)
                   /\ boot' = [boot EXCEPT !.pc = "thread", !.docs = << >>, !.items = << >>]
                   /\ UNCHANGED hist
              ELSE /\ boot' = [boot EXCEPT !.pc = "crashed"]
                   /\ hist' = [hist EXCEPT !.ok = FALSE]
                   /\ UNCHANGED vector_db
    /\ UNCHANGED << remote, user_map, known_timestamps, upd, ask, restarts >>

\* A mistaken variant of StartThread: the thread is started before
\* bootstrap_vector_db is called (lines 239 and 240 exchanged).
StartThreadFirst ==
    /\ boot.pc \in {"fetch", "thread"}
    /\ upd.pc = "off"
    /\ boot' = IF boot.pc = "thread" THEN [boot EXCEPT !.pc = "run"] ELSE boot
    /\ upd' = [upd EXCEPT !.pc = "fetch"]
    /\ UNCHANGED << remote, user_map, known_timestamps, vector_db, ask, hist, restarts >>

\* line 240: threading.Thread(target=update_vector_db, daemon=True).start()
StartThread ==
    /\ boot.pc = "thread"
    /\ boot' = [boot EXCEPT !.pc = "run"]
    /\ upd' = [upd EXCEPT !.pc = "fetch"]
    /\ UNCHANGED << remote, user_map, known_timestamps, vector_db, ask, hist, restarts >>

\* lines 241-242: app.run(...): the server accepts requests from here on.
RunServer ==
    /\ boot.pc = "run"
    /\ boot' = [boot EXCEPT !.pc = "serving"]
    /\ UNCHANGED << remote, user_map, known_timestamps, vector_db, upd, ask, hist, restarts >>

\* The process is alive (a daemon thread ends with the main thread).
Alive == boot.pc # "crashed"

\* A mistaken variant of Serving: the server accepts requests from the start
\* of the process on.
ServingFromStart == boot.pc # "crashed"

\* Requests reach ask_question once app.run is called at line 242, the last
\* statement of __main__.
Serving == boot.pc = "serving"

\* A step of the bootstrap pass.
BootStep == BootFetch \/ BootItems \/ BootLoop \/ BootWrite

\* ---------------------------------------------------------- update_vector_db
\* A mistaken variant of NewMsgs: no message is taken as known.
NewMsgsWithoutDedup(items, known) == items

\* line 119: new_msgs = [m for m in items if m["timestamp"] not in known_timestamps]
NewMsgs(items, known) ==
    SelectSeq(items, LAMBDA m : m.timestamp \notin known)

\* Where the loop of lines 125-138 goes after the last chunk of new_msgs[i]:
\* the next message, or line 140 after the last one.
AfterMessage(u) ==
    IF u.i < Len(u.new_msgs)
    THEN [u EXCEPT !.pc = "mark", !.i = u.i + 1, !.j = 1]
    ELSE [u EXCEPT !.pc = "persist", !.j = 1]

\* line 146 is reached from the except clause (lines 143-144) as well as from
\* the end of the try block: the locals of the pass are dead.
ToSleep(u) ==
    [u EXCEPT !.pc = "sleep", !.data = NoData, !.new_msgs = << >>, !.i = 1, !.j = 1]

\* line 117: data = fetch_messages()
UpdFetch ==
    /\ Alive
    /\ upd.pc = "fetch"
    /\ \E resp \in Responses :
         /\ upd' = [upd EXCEPT !.pc = "filter", !.data = fetch_messages(resp)]
         /\ hist' = [hist EXCEPT !.snap = remote, !.ok = (resp = "ok"),
                                 !.same = (remote = hist.snap), !.prevOk = hist.ok]
    /\ UNCHANGED << remote, user_map, known_timestamps, vector_db, boot, ask, restarts >>

\* lines 118-124: items, new_msgs and the test on new_msgs. The AttributeError
\* of a non-dict body is caught at line 143.
UpdFilter ==
    /\ Alive
    /\ upd.pc = "filter"
    /\ upd' = IF ~HasGet(upd.data)
              THEN ToSleep(upd)
              ELSE LET new == NewMsgs(upd.data.items, known_timestamps) IN
                   IF new = << >>
                   THEN ToSleep(upd)
                   ELSE [upd EXCEPT !.pc = "mark", !.data = NoData, !.new_msgs = new,
                                    !.i = 1, !.j = 1]
    /\ UNCHANGED << remote, user_map, known_timestamps, vector_db, boot, ask, hist, restarts >>

\* A mistaken variant of UpdMark: line 127 is missing.
UpdMarkWithoutTimestamp ==
    /\ Alive
    /\ upd.pc = "mark"
    /\ LET m == upd.new_msgs[upd.i] IN
         /\ user_map' = DictSet(user_map, lower(m.user_name), m.user_id)
         /\ upd' = IF split_text(m.message) = << >>
                   THEN AfterMessage(upd)
                   ELSE [upd EXCEPT !.pc = "write", !.j = 1]
    /\ UNCHANGED << remote, known_timestamps, vector_db, boot, ask, hist, restarts >>

\* lines 125-129: the head of one iteration of `for m in new_msgs`, up to the
\* first add_texts call.
UpdMark ==
    /\ Alive
    /\ upd.pc = "mark"
    /\ LET m == upd.new_msgs[upd.i] IN
         /\ user_map' = DictSet(user_map, lower(m.user_name), m.user_id)
         /\ known_timestamps' = known_timestamps \cup {m.timestamp}
         /\ upd' = IF split_text(m.message) = << >>
                   THEN AfterMessage(upd)
                   ELSE [upd EXCEPT !.pc = "write", !.j = 1]
    /\ UNCHANGED << remote, vector_db, boot, ask, hist, restarts >>

\* lines 130-138: vector_db.add_texts([chunk], ...) for chunk j of new_msgs[i].
\* Its exception ends the pass at line 143.
UpdWrite ==
    /\ Alive
    /\ upd.pc = "write"
    /\ LET m == upd.new_msgs[upd.i]
           chunks == split_text(m.message)
       IN \E written \in BOOLEAN :
            IF written
            THEN /\ vector_db' = vector_db (+) SetToBag({Entry(m, chunks[upd.j])})
                 /\ upd' = IF upd.j < Len(chunks)
                           THEN [upd EXCEPT !.j = upd.j + 1]
                           ELSE AfterMessage(upd)
                 /\ UNCHANGED hist
            ELSE /\ upd' = ToSleep(upd)
                 /\ hist' = [hist EXCEPT !.ok = FALSE]
                 /\ UNCHANGED vector_db
    /\ UNCHANGED << remote, user_map, known_timestamps, boot, ask, restarts >>

\* lines 140-141: vector_db.persist(); whether it returns or raises, line 146 is next.
UpdPersist ==
    /\ Alive
    /\ upd.pc = "persist"
    /\ upd' = ToSleep(upd)
    /\ UNCHANGED << remote, user_map, known_timestamps, vector_db, boot, ask, hist, restarts >>

\* line 146 and back to line 115: time.sleep(CHECK_INTERVAL) returns.
UpdSleep ==
    /\ Alive
    /\ upd.pc = "sleep"
    /\ upd' = [upd EXCEPT !.pc = "fetch"]
    /\ hist' = [hist EXCEPT !.same = FALSE, !.prevOk = FALSE]
    /\ UNCHANGED << remote, user_map, known_timestamps, vector_db, boot, ask, restarts >>

\* A step of the refresh pass.
UpdStep == UpdFetch \/ UpdFilter \/ UpdMark \/ UpdWrite \/ UpdPersist \/ UpdSleep

\* ------------------------------------------------------------- identify_user
\* What llm.invoke(prompt) can give at line 171: the call raises, or it returns
\* content that is not JSON, JSON that is not an object, an object without
\* "user_name", or an object whose "user_name" is null, a string or a number.
LLMStrings == {"Alice", "bob", "Carol", ""}
LLMNumbers == {"42", "0"}
LLMResponses ==
    [shape : {"call_failed", "not_json", "json_nonobject", "object_no_key", "null"}, v : {""}]
      \cup [shape : {"string"}, v : LLMStrings]
      \cup [shape : {"number"}, v : LLMNumbers]

\* lines 170-176: the value identify_user returns for a model response.
\* llm.invoke and json.loads raising, and .get on a non-object, end in the
\* except clause (None); otherwise the value under "user_name", as it is.
identify_user(r) ==
    CASE r.shape \in {"call_failed", "not_json", "json_nonobject"} -> NoValue
      [] r.shape \in {"object_no_key", "null"}                     -> NoValue
      [] r.shape = "string"                                        -> [t |-> "str", v |-> r.v]
      [] OTHER                                                     -> [t |-> "int", v |-> r.v]

\* Python truth value of the value identify_user returned.
Truthy(val) ==
    CASE val.t = "none" -> FALSE
      [] val.t = "str"  -> val.v # ""
      [] OTHER          -> val.v # "0"

\* ----------------------------------------------------- vector_db.similarity_search
\* A mistaken variant of Filtered: the search is made without the filter.
Unfiltered(db, uid) == db

\* The entries whose metadata passes filter={"user_id": uid}.
Filtered(db, uid) ==
    LET S == {e \in DOMAIN db : e.user_id = uid} IN [e \in S |-> db[e]]

Min(a, b) == IF a < b THEN a ELSE b

\* similarity_search(question, k, filter): k entries among those that pass the
\* filter (all of them when there are fewer); which ones depends on the
\* embedding of the question, which is not modelled.
similarity_search(db, k, uid) ==
    LET F == Filtered(db, uid)
        n == Min(k, BagCardinality(F))
    IN {B \in SubBag(F) : BagCardinality(B) = n}

\* -------------------------------------------------------------- ask_question
\* The "question" field of the request body: absent, null, a number, "", blank
\* or a text.
Questions == {"missing", "null", "number", "empty", "blank", "text"}

\* The request returns (or its exception leaves ask_question): the response is
\* what remains, the locals are gone.
Finish(a, status, body) ==
    [a EXCEPT !.pc = "done", !.status = status, !.body = body, !.question = "none",
              !.user_name = NoValue, !.user_id = "none", !.docs = EmptyBag]

\* lines 186-190: data.get("question", "").strip() and the test on it. null and
\* a number have no .strip().
AskStart ==
    /\ Serving
    /\ ask.pc \in {"idle", "done"}
    /\ \E q \in Questions :
         LET a == [AskInit EXCEPT !.question = q] IN
         ask' = CASE q \in {"null", "number"}            -> Finish(a, "exception", "AttributeError")
                  [] q \in {"missing", "empty", "blank"} -> Finish(a, "400", "Missing 'question' field")
                  [] OTHER                               -> [a EXCEPT !.pc = "identify"]
    /\ UNCHANGED << remote, user_map, known_timestamps, vector_db, boot, upd, hist, restarts >>

\* line 192: user_name = identify_user(question)
AskIdentify ==
    /\ Alive
    /\ ask.pc = "identify"
    /\ \E r \in LLMResponses :
         ask' = [ask EXCEPT !.pc = "check", !.user_name = identify_user(r)]
    /\ UNCHANGED << remote, user_map, known_timestamps, vector_db, boot, upd, hist, restarts >>

\* A mistaken variant of CheckUser: the name is not looked up in user_map.
CheckUserWithoutLookup(val, map) ==
    IF ~Truthy(val) THEN "unknown"
    ELSE IF val.t # "str" THEN "raise"
    ELSE "known"

\* line 193: `not user_name or user_name.lower() not in user_map`.
\* "unknown" the test is true, "known" it is false, "raise" a truthy value
\* that is not a string has no .lower().
CheckUser(val, map) ==
    IF ~Truthy(val) THEN "unknown"
    ELSE IF val.t # "str" THEN "raise"
    ELSE IF lower(val.v) \notin DOMAIN map THEN "unknown"
    ELSE "known"

\* lines 193-194
AskCheck ==
    /\ Alive
    /\ ask.pc = "check"
    /\ LET c == CheckUser(ask.user_name, user_map) IN
       ask' = CASE c = "unknown" -> Finish(ask, "400", "Couldn't determine")
                [] c = "raise"   -> Finish(ask, "exception", "AttributeError")
                [] OTHER         -> [ask EXCEPT !.pc = "lookup"]
    /\ UNCHANGED << remote, user_map, known_timestamps, vector_db, boot, upd, hist, restarts >>

\* A mistaken variant of AskLookup: the lookup stores the name as it was given,
\* as user_map.setdefault(user_name, ...) would.
AskLookupInserting ==
    /\ Alive
    /\ ask.pc = "lookup"
    /\ ask' = [ask EXCEPT !.pc = "search", !.user_id = user_map[lower(ask.user_name.v)]]
    /\ user_map' = DictSet(user_map, ask.user_name.v, user_map[lower(ask.user_name.v)])
    /\ UNCHANGED << remote, known_timestamps, vector_db, boot, upd, hist, restarts >>

\* line 196: user_id = user_map[user_name.lower()]
AskLookup ==
    /\ Alive
    /\ ask.pc = "lookup"
    /\ ask' = IF lower(ask.user_name.v) \in DOMAIN user_map
              THEN [ask EXCEPT !.pc = "search", !.user_id = user_map[lower(ask.user_name.v)]]
              ELSE Finish(ask, "exception", "KeyError")
    /\ UNCHANGED << remote, user_map, known_timestamps, vector_db, boot, upd, hist, restarts >>

\* line 197: relevant_docs = vector_db.similarity_search(...). The call embeds
\* the question and queries the store; nothing catches its exception.
AskSearch ==
    /\ Alive
    /\ ask.pc = "search"
    /\ \E answered \in BOOLEAN :
         IF answered
         THEN \E docs \in similarity_search(vector_db, K, ask.user_id) :
                ask' = [ask EXCEPT !.pc = "compose", !.docs = docs, !.searched = TRUE]
         ELSE ask' = [Finish(ask, "exception", "search failed") EXCEPT !.searched = TRUE]
    /\ UNCHANGED << remote, user_map, known_timestamps, vector_db, boot, upd, hist, restarts >>

\* A mistaken variant of Compose: the empty result is not tested.
ComposeWithoutEmptyTest(a) == [a EXCEPT !.pc = "generate"]

\* lines 199-228: `if not relevant_docs` returns the answer "No messages found
\* for {user_name}." with the default status; otherwise the context and the
\* prompt are built for the generation call.
Compose(a) ==
    IF a.docs = EmptyBag
    THEN [Finish(a, "200", "No messages found for") EXCEPT !.user_name = a.user_name]
    ELSE [a EXCEPT !.pc = "generate"]

AskCompose ==
    /\ Alive
    /\ ask.pc = "compose"
    /\ ask' = Compose(ask)
    /\ UNCHANGED << remote, user_map, known_timestamps, vector_db, boot, upd, hist, restarts >>

\* lines 230-234: the answer-generation call, inside try/except.
AskGenerate ==
    /\ Alive
    /\ ask.pc = "generate"
    /\ \E answered \in BOOLEAN :
         ask' = [(IF answered THEN Finish(ask, "200", "answer")
                              ELSE Finish(ask, "500", "Failed to generate answer"))
                 EXCEPT !.generated = TRUE]
    /\ UNCHANGED << remote, user_map, known_timestamps, vector_db, boot, upd, hist, restarts >>

\* A step of the request thread.
AskStep == AskStart \/ AskIdentify \/ AskCheck \/ AskLookup \/ AskSearch \/ AskCompose \/ AskGenerate

\* ------------------------------------------------------------- specification
Next ==
    \/ RemoteAppend
    \/ Restart
    \/ BootFetch
    \/ BootItems
    \/ BootLoop
    \/ BootWrite
    \/ StartThread
    \/ RunServer
    \/ UpdFetch
    \/ UpdFilter
    \/ UpdMark
    \/ UpdWrite
    \/ UpdPersist
    \/ UpdSleep
    \/ AskStart
    \/ AskIdentify
    \/ AskCheck
    \/ AskLookup
    \/ AskSearch
    \/ AskCompose
    \/ AskGenerate

Spec == Init /\ [][Next]_vars

\* ------------------------------------------- one pass of each, side by side
\* The snapshots the remote feed may serve: sequences of distinct messages.
Snapshots ==
    {S \in UNION {[1..n -> Messages] : n \in 0..MaxRemote} :
        \A j, k \in 1..Len(S) : j # k => S[j] # S[k]}

\* What a pass left behind.
PassEnd(failed) ==
    [recorded |-> TRUE, user_map |-> user_map, known_timestamps |-> known_timestamps,
     vector_db |-> vector_db, ok |-> hist.ok, failed |-> failed]

NoPassEnd ==
    [recorded |-> FALSE, user_map |-> EmptyDict, known_timestamps |-> {},
     vector_db |-> EmptyBag, ok |-> FALSE, failed |-> FALSE]

\* The globals as lines 56-63 leave them, over an empty collection, and a
\* remote snapshot that does not change; hist.boot is to hold what the
\* bootstrap pass leaves behind.
EqInit ==
    /\ remote \in Snapshots
    /\ user_map = EmptyDict
    /\ known_timestamps = {}
    /\ vector_db = EmptyBag
    /\ boot = BootInit
    /\ upd = UpdInit
    /\ ask = AskInit
    /\ hist = [snap |-> << >>, ok |-> FALSE, same |-> FALSE, prevOk |-> FALSE,
               boot |-> NoPassEnd]
    /\ restarts = 0

\* bootstrap_vector_db has returned or raised: what it left is recorded, the
\* globals and the collection are put back to their start and update_vector_db
\* is run from there. A write has failed in bootstrap when it ended on an
\* exception after line 88.
EqHandover ==
    /\ boot.pc \in {"thread", "crashed"}
    /\ upd.pc = "off"
    /\ hist' = [hist EXCEPT !.boot = PassEnd(boot.pc = "crashed" /\ boot.data = NoData)]
    /\ user_map' = EmptyDict
    /\ known_timestamps' = {}
    /\ vector_db' = EmptyBag
    /\ boot' = [BootInit EXCEPT !.pc = "held"]
    /\ upd' = [upd EXCEPT !.pc = "fetch"]
    /\ UNCHANGED << remote, ask, restarts >>

EqNext ==
    \/ BootFetch
    \/ BootItems
    \/ BootLoop
    \/ BootWrite
    \/ EqHandover
    \/ UpdFetch
    \/ UpdFilter
    \/ UpdMark
    \/ UpdWrite
    \/ UpdPersist

\* One bootstrap pass, then one refresh pass from the same start state over
\* the same snapshot.
SpecEq == EqInit /\ [][EqNext]_vars

\* ------------------------------------------------------------------ claims
\* All chunks of message m are in the index.
FullyIndexed(m) ==
    \A c \in 1..Len(Entries(m)) : BagIn(Entries(m)[c], vector_db)

\* No other message of the snapshot has the timestamp of its k-th message.
UniqueTimestamp(snap, k) ==
    \A j \in 1..Len(snap) : j # k => snap[j].timestamp # snap[k].timestamp

\* C1: in every reachable state, the timestamp of a message of the remote feed
\* is in known_timestamps if and only if all chunks of that message are in the
\* vector index.
C1_KnownIffIndexed ==
    \A k \in 1..Len(remote) :
        (remote[k].timestamp \in known_timestamps) <=> FullyIndexed(remote[k])

\* C2 as stated: every step of a refresh pass over a remote snapshot that is
\* the one the previous pass met leaves user_map, known_timestamps and the
\* index as they are.
C2_UnchangedSnapshotIsNoOp ==
    [][(UpdStep /\ hist.same) => UNCHANGED << user_map, known_timestamps, vector_db >>]_vars

\* C2 amended: every step of a refresh pass over a remote snapshot that the
\* previous pass fetched and ingested without a failed fetch or index write
\* leaves user_map, known_timestamps and the index as they are.
C2_UnchangedSnapshotIsNoOpAfterCompletePass ==
    [][(UpdStep /\ hist.same /\ hist.prevOk)
          => UNCHANGED << user_map, known_timestamps, vector_db >>]_vars

\* A refresh pass has run to its end over a non-empty snapshot that the pass
\* before it had ingested completely.
C2_Witness ==
    /\ upd.pc = "sleep"
    /\ hist.same /\ hist.prevOk /\ hist.ok
    /\ hist.snap # << >>
    /\ vector_db # EmptyBag

\* C3: when a refresh pass that fetched the snapshot and had no failed write
\* ends, every message of that snapshot (with a timestamp of its own) has all
\* its chunks in the index, the messages whose write failed in an earlier pass
\* included.
C3_CompletePassLeavesSnapshotIndexed ==
    (upd.pc = "sleep" /\ hist.ok) =>
        \A k \in 1..Len(hist.snap) :
            UniqueTimestamp(hist.snap, k) => FullyIndexed(hist.snap[k])

\* C4: the step that reads the items of a failed fetch, in bootstrap (line 88)
\* and in a refresh cycle (lines 118-119), leaves user_map, known_timestamps
\* and the index unchanged and the process alive, and goes on with zero items:
\* bootstrap to its loop over no item, the refresh cycle to its sleep.
C4_FailedFetchIsZeroItems ==
    [][((BootItems \/ UpdFilter) /\ ~hist.ok) =>
          /\ UNCHANGED << user_map, known_timestamps, vector_db >>
          /\ Alive'
          /\ \/ (boot'.pc = "loop" /\ boot'.items = << >>)
             \/ upd'.pc = "sleep"]_vars

\* C5: whenever a request holds retrieved chunks for its answer context, each
\* of them has the user_id that line 196 read from user_map for the resolved
\* name.
C5_ContextOnlyResolvedUser ==
    ask.pc \in {"compose", "generate"} =>
        \A e \in BagToSet(ask.docs) : e.user_id = ask.user_id

\* A request is about to generate an answer from a context while the index
\* also holds chunks of another user id.
C5_Witness ==
    /\ ask.pc = "generate"
    /\ ask.docs # EmptyBag
    /\ \E e \in BagToSet(vector_db) : e.user_id # ask.user_id

\* C6: the value identify_user returned is None or a key of user_map.
C6_ResolverClosure ==
    ask.pc = "check" =>
        \/ ask.user_name = NoValue
        \/ (ask.user_name.t = "str" /\ ask.user_name.v \in DOMAIN user_map)

\* C7: when identify_user returned None, or a name whose lowercased form is no
\* key of user_map, lines 193-194 end the request with status 400, and no
\* similarity search and no generation call has been made for it.
C7_UnknownUserIs400 ==
    [][(/\ AskCheck
        /\ \/ ask.user_name.t = "none"
           \/ (ask.user_name.t = "str" /\ lower(ask.user_name.v) \notin DOMAIN user_map))
          => (ask'.pc = "done" /\ ask'.status = "400"
                /\ ~ask'.searched /\ ~ask'.generated)]_vars

\* A request was refused as being about no known member while members are known.
C7_Witness ==
    /\ ask.pc = "done"
    /\ ask.status = "400"
    /\ ask.body = "Couldn't determine"
    /\ user_map # EmptyDict

\* C8: when the resolver's response did not have the expected structure, so
\* that identify_user returned None or a value that is not a string, lines
\* 193-194 end the request with status 400 and raise nothing.
C8_MalformedResolverOutputIs400 ==
    [][(AskCheck /\ ask.user_name.t # "str")
          => (ask'.pc = "done" /\ ask'.status = "400")]_vars

\* C9: no step of a request that calls an external service (the resolver
\* model, the similarity search, the generation model) ends the request with
\* an exception leaving ask_question.
C9_ExternalFailureIsDomainResponse ==
    [][(AskIdentify \/ AskSearch \/ AskGenerate) => ask'.status # "exception"]_vars

\* C10: when the search for a user of user_map returned no chunk, lines 199-200
\* end the request with status 200 and the answer "No messages found for
\* <name>.", and no generation call has been made.
C10_EmptyResultIsAnswer ==
    [][(AskCompose /\ ask.docs = EmptyBag)
          => (/\ ask'.pc = "done"
              /\ ask'.status = "200"
              /\ ask'.body = "No messages found for"
              /\ ask'.user_name = ask.user_name
              /\ ~ask'.generated)]_vars

\* A request about a member of user_map with no chunk in the index was answered.
C10_Witness ==
    /\ ask.pc = "done"
    /\ ask.status = "200"
    /\ ask.body = "No messages found for"
    /\ lower(ask.user_name.v) \in DOMAIN user_map

\* C11: every step that ends a request ends it with status 200, 400 or 500; a
\* request that ends at lines 186-190 (its question is missing, null, not a
\* string, empty or blank) ends with 400 and has made no search and no model
\* call; and 500 is given only by the answer-generation step.
C11_ThreeOutcomes ==
    [][(AskStep /\ ask'.pc = "done") =>
          /\ ask'.status \in {"200", "400", "500"}
          /\ AskStart => (ask'.status = "400" /\ ~ask'.searched /\ ~ask'.generated)
          /\ ask'.status = "500" => AskGenerate]_vars

\* C12: in every reachable state, every user_id in the metadata of an index
\* entry is the value of some entry of user_map.
C12_IndexedUserInDirectory ==
    \A e \in BagToSet(vector_db) :
        \E n \in DOMAIN user_map : user_map[n] = e.user_id

\* C13: in every reachable state, restarts over the persisted index included,
\* no chunk of a message is in the index more than once.
C13_NoDuplicateChunks ==
    \A e \in BagToSet(vector_db) : CopiesIn(e, vector_db) <= 1

\* C14: the refresh thread runs only once bootstrap_vector_db has returned, so
\* no state has the bootstrap pass and a refresh pass both under way.
C14_OneSyncPassAtATime ==
    upd.pc # "off" => boot.pc \in {"run", "serving"}

\* A refresh pass is writing to the index, after bootstrap wrote to it.
C14_Witness ==
    /\ upd.pc = "write"
    /\ boot.pc = "serving"
    /\ vector_db # EmptyBag

\* C15: no step of a request changes user_map, known_timestamps or the index.
C15_RequestWritesNothing ==
    [][UNCHANGED << user_map, known_timestamps, vector_db >> \/ ~AskStep]_vars

\* A request was answered from retrieved chunks.
C15_Witness ==
    /\ ask.pc = "done"
    /\ ask.status = "200"
    /\ ask.body = "answer"
    /\ ask.searched /\ ask.generated

\* The timestamps of the items of a snapshot.
TimestampsOf(S) == {S[k].timestamp : k \in 1..Len(S)}

\* Each lowercased user_name of a snapshot with the user_id of the last item
\* that has it.
LastUserIds(S) ==
    [n \in {lower(S[k].user_name) : k \in 1..Len(S)} |->
        LET last == CHOOSE k \in 1..Len(S) :
                      /\ lower(S[k].user_name) = n
                      /\ \A j \in 1..Len(S) : lower(S[j].user_name) = n => j <= k
        IN S[last].user_id]

\* The chunks of the items of a snapshot, each with the metadata of its message.
RECURSIVE ChunksOf(_)
ChunksOf(S) ==
    IF S = << >> THEN EmptyBag ELSE SeqToBag(Entries(Head(S))) (+) ChunksOf(Tail(S))

\* C16: when bootstrap_vector_db returns after a successful fetch of snapshot S
\* and a successful write, known_timestamps is the set of the timestamps of S,
\* user_map maps each lowercased user_name of S to the user_id of the last item
\* with that name, and the index holds exactly the chunks of the items of S.
C16_BootstrapResult ==
    (boot.pc = "thread" /\ hist.ok) =>
        /\ known_timestamps = TimestampsOf(hist.snap)
        /\ user_map = LastUserIds(hist.snap)
        /\ vector_db = ChunksOf(hist.snap)

\* C17: when a refresh pass ends that started from the state the bootstrap
\* pass started from, over the same snapshot, it leaves the user_map,
\* known_timestamps and index that the bootstrap pass left, both when the two
\* passes fetched the snapshot and had no failed write and when a write failed
\* in both.
C17_BootstrapAndRefreshAgree ==
    (upd.pc = "sleep" /\ hist.boot.recorded) =>
        LET refreshFailed == ~hist.ok /\ known_timestamps # {} IN
        ((hist.boot.ok /\ hist.ok) \/ (hist.boot.failed /\ refreshFailed)) =>
            /\ user_map = hist.boot.user_map
            /\ known_timestamps = hist.boot.known_timestamps
            /\ vector_db = hist.boot.vector_db

\* C18: in a process that started with an empty index, every entry of the
\* index has a timestamp that is in known_timestamps.
C18_IndexedTimestampKnown ==
    restarts = 0 =>
        \A e \in BagToSet(vector_db) : e.timestamp \in known_timestamps

\* A refresh pass ended on a failed write with a message partly in the index.
C18_Witness ==
    /\ restarts = 0
    /\ upd.pc = "sleep"
    /\ ~hist.ok
    /\ \E m \in Messages :
         /\ Len(Entries(m)) > 1
         /\ BagIn(Entries(m)[1], vector_db)
         /\ ~FullyIndexed(m)

\* C19: no step of a sync pass removes a key of user_map or an element of
\* known_timestamps, and the lookup of line 196 finds its key.
C19_DirectoryOnlyGrows ==
    [][/\ \/ /\ DOMAIN user_map \subseteq DOMAIN user_map'
             /\ known_timestamps \subseteq known_timestamps'
          \/ ~(BootStep \/ UpdStep)
       /\ ask'.pc = "search" \/ ~AskLookup]_vars

\* A request has looked its user up while a refresh pass is between the
\* writes of a message.
C19_Witness ==
    /\ ask.pc = "search"
    /\ upd.pc = "write"
    /\ upd.j > 1

\* C20: a request is handled only when bootstrap_vector_db has returned, the
\* refresh thread has been started and app.run has been called.
C20_RequestsAfterBootstrap ==
    ask.pc # "idle" => (boot.pc = "serving" /\ upd.pc # "off")

\* A request is being handled while a refresh pass runs.
C20_Witness ==
    /\ ask.pc = "identify"
    /\ upd.pc = "mark"

====
